---- MODULE Spec2Model ----
(***************************************************************************)
(* Model of pdf_to_excel_bank.py: the line parser (parse_line), the record *)
(* assembler (parse_lines_to_rows) and the OCR word clusterer              *)
(* (easyocr_lines).                                                        *)
(*                                                                         *)
(* A Python str is a sequence of one-character strings.  A Decimal with    *)
(* two fractional digits is the integer number of hundredths (cents).      *)
(* None is the empty sequence where the code has Optional[Decimal], and    *)
(* the record None_ where it has Optional[ParsedRow].                      *)
(***************************************************************************)
EXTENDS Integers, Sequences, FiniteSets, TLC

VARIABLES
    pc,            \* position of the running function
    line,          \* parse_line: argument line
    prev,          \* parse_line: argument prev_balance (<<>> is None)
    parsed,        \* parse_line: returned value
    consumed,      \* parse_lines_to_rows: the lines the for loop has taken
    rows,          \* parse_lines_to_rows: rows
    prev_balance,  \* parse_lines_to_rows: prev_balance (<<>> is None)
    pending_desc,  \* parse_lines_to_rows: pending_desc
    pending_date,  \* parse_lines_to_rows: pending_date
    df,            \* parse_lines_to_rows: the returned frame, a sequence of rows
    results,       \* easyocr_lines: results, each as (y_center, x_left, text)
    words,         \* easyocr_lines: words
    idx,           \* easyocr_lines: index of the next word of the for loop
    current_y,     \* easyocr_lines: current_y
    current_line,  \* easyocr_lines: current_line
    lines,         \* easyocr_lines: lines
    flushed        \* history: the word lists that were joined into lines

vars == <<pc, line, prev, parsed, consumed, rows, prev_balance, pending_desc,
          pending_date, df, results, words, idx, current_y, current_line,
          lines, flushed>>

lineVars == <<line, prev, parsed>>
rowVars  == <<consumed, rows, prev_balance, pending_desc, pending_date, df>>
ocrVars  == <<results, words, idx, current_y, current_line, lines, flushed>>

-----------------------------------------------------------------------------
(* Characters and Python str methods *)

Digits == <<"0", "1", "2", "3", "4", "5", "6", "7", "8", "9">>

LowerLetters == <<"a", "b", "c", "d", "e", "f", "g", "h", "i", "j", "k", "l", "m",
                  "n", "o", "p", "q", "r", "s", "t", "u", "v", "w", "x", "y", "z">>

UpperLetters == <<"A", "B", "C", "D", "E", "F", "G", "H", "I", "J", "K", "L", "M",
                  "N", "O", "P", "Q", "R", "S", "T", "U", "V", "W", "X", "Y", "Z">>

Range(f) == {f[i] : i \in DOMAIN f}

DigitSet == Range(Digits)

IsDigit(c) == c \in DigitSet

LowerSet == Range(LowerLetters)

AlphaSet == Range(LowerLetters) \cup Range(UpperLetters)

\* str.isalpha() of a character
IsAlpha(c) == c \in AlphaSet

\* \w of the re module on the characters of the model
IsWordChar(c) == IsDigit(c) \/ IsAlpha(c) \/ c = "_"

IsSpace(c) == c = " "

DigitVal(c) == (CHOOSE i \in DOMAIN Digits : Digits[i] = c) - 1

\* the upper-case letter of each lower-case letter
UpperOf == [c \in LowerSet |-> UpperLetters[CHOOSE i \in 1..26 : LowerLetters[i] = c]]

UpperChar(c) == IF c \in LowerSet THEN UpperOf[c] ELSE c

\* str.upper()
Upper(s) == [i \in DOMAIN s |-> UpperChar(s[i])]

\* s[p:p+len(sub)] == sub, p counted from 1
OccursAt(s, sub, p) ==
    /\ p >= 1
    /\ p + Len(sub) - 1 <= Len(s)
    /\ \A k \in 1..Len(sub) : s[p + k - 1] = sub[k]

Occurrences(s, sub) == {p \in 1..Len(s) : OccursAt(s, sub, p)}

\* sub in s
Contains(s, sub) == Occurrences(s, sub) # {}

Min(S) == CHOOSE x \in S : \A y \in S : x <= y

Max(S) == CHOOSE x \in S : \A y \in S : x >= y

\* s.rsplit(sep, 1)[0]: the text before the last occurrence of sep
RSplitHead(s, sep) ==
    IF Contains(s, sep) THEN SubSeq(s, 1, Max(Occurrences(s, sep)) - 1) ELSE s

\* s.split(sep, 1)[1]: the text after the first occurrence of sep
SplitTail(s, sep) ==
    SubSeq(s, Min(Occurrences(s, sep)) + Len(sep), Len(s))

\* s[-n:]
LastN(s, n) == IF Len(s) <= n THEN s ELSE SubSeq(s, Len(s) - n + 1, Len(s))

\* s[:n]
FirstN(s, n) == IF Len(s) <= n THEN s ELSE SubSeq(s, 1, n)

\* s.strip(chars)
Strip(s, chars) ==
    LET kept == {i \in 1..Len(s) : s[i] \notin chars}
    IN  IF kept = {} THEN <<>> ELSE SubSeq(s, Min(kept), Max(kept))

\* s.rstrip(chars)
StripRight(s, chars) ==
    LET kept == {i \in 1..Len(s) : s[i] \notin chars}
    IN  IF kept = {} THEN <<>> ELSE SubSeq(s, 1, Max(kept))

NotDropped(c) == c # "DROPPED"

\* re.sub(r'\s+', ' ', s): each run of spaces becomes one space, that is,
\* every space that follows a space is dropped
CollapseSpaces(s) ==
    SelectSeq([i \in DOMAIN s |->
                  IF i > 1 /\ IsSpace(s[i]) /\ IsSpace(s[i - 1]) THEN "DROPPED" ELSE s[i]],
              NotDropped)

\* re.sub(r'\s+', ' ', s).strip()
normspaces(s) == Strip(CollapseSpaces(s), {" "})

RECURSIVE Join(_)
\* " ".join(parts)
Join(parts) ==
    IF parts = <<>> THEN <<>>
    ELSE IF Len(parts) = 1 THEN parts[1]
    ELSE parts[1] \o <<" ">> \o Join(Tail(parts))

RECURSIVE ReplaceAll(_, _)
\* s.replace(sub, ""), sub not empty
ReplaceAll(s, sub) ==
    IF s = <<>> THEN <<>>
    ELSE IF OccursAt(s, sub, 1) THEN ReplaceAll(SubSeq(s, Len(sub) + 1, Len(s)), sub)
    ELSE <<s[1]>> \o ReplaceAll(Tail(s), sub)

-----------------------------------------------------------------------------
(* MONEY_RX = (?<!\d)(\d{1,3}(?:,\d{3})*|\d+)\.\d{2}(?!\d) *)

RECURSIVE DigitRun(_, _)
\* the number of digits of s from position i on
DigitRun(s, i) ==
    IF i <= Len(s) /\ IsDigit(s[i]) THEN 1 + DigitRun(s, i + 1) ELSE 0

RECURSIVE SkipGroups(_, _)
\* (?:,\d{3})* from position j, greedy: the position after the last group
SkipGroups(s, j) ==
    IF /\ j + 3 <= Len(s)
       /\ s[j] = ","
       /\ IsDigit(s[j + 1]) /\ IsDigit(s[j + 2]) /\ IsDigit(s[j + 3])
    THEN SkipGroups(s, j + 4)
    ELSE j

\* \.\d{2}(?!\d) at position j
MoneyTailAt(s, j) ==
    /\ j + 2 <= Len(s)
    /\ s[j] = "."
    /\ IsDigit(s[j + 1]) /\ IsDigit(s[j + 2])
    /\ (j + 3 <= Len(s) => ~IsDigit(s[j + 3]))

\* The end of the match that starts at i, 0 when none starts there.  A run
\* of digits cannot be cut short (the next character would be a digit, which
\* is neither "," nor "."), and a comma group cannot be given back (the next
\* character would be ","), so each alternative has one candidate.
MoneyEndAt(s, i) ==
    LET k == DigitRun(s, i)
        grouped == SkipGroups(s, i + k)
    IN  IF k = 0 \/ (i > 1 /\ IsDigit(s[i - 1])) THEN 0
        ELSE IF k <= 3 /\ MoneyTailAt(s, grouped) THEN grouped + 2
        ELSE IF MoneyTailAt(s, i + k) THEN i + k + 2
        ELSE 0

RECURSIVE MoneyScan(_, _)
\* MONEY_RX.finditer(s) from position i: the (start, end) of each match, the
\* search going on after the end of the match before
MoneyScan(s, i) ==
    LET starts == {j \in i..Len(s) : MoneyEndAt(s, j) > 0}
        MatchAt(j, e) == <<[start |-> j, end |-> e]>> \o MoneyScan(s, e + 1)
        First(j) == MatchAt(j, MoneyEndAt(s, j))
        Matches(found) == IF found = {} THEN <<>> ELSE First(Min(found))
    IN  Matches(starts)

MoneyMatches(s) == MoneyScan(s, 1)

\* [m.group(0) for m in MONEY_RX.finditer(s)]
Monies(s) ==
    LET ms == MoneyMatches(s)
    IN  [k \in DOMAIN ms |-> SubSeq(s, ms[k].start, ms[k].end)]

\* MONEY_RX.search(s) is not None
MoneySearch(s) == MoneyMatches(s) # <<>>

RECURSIVE DigitsValue(_, _)
DigitsValue(s, acc) ==
    IF s = <<>> THEN acc
    ELSE IF IsDigit(Head(s)) THEN DigitsValue(Tail(s), 10 * acc + DigitVal(Head(s)))
    ELSE DigitsValue(Tail(s), acc)

\* Decimal(s.replace(',', '').strip()) of a money match, in cents: the
\* digits of the match without its commas and its point
clean_money(s) == DigitsValue(s, 0)

-----------------------------------------------------------------------------
(* DATE_RXES and find_date *)

DateSeps == {"-", "/", "."}

SepAt(s, j) == j <= Len(s) /\ s[j] \in DateSeps

RECURSIVE AlphaRun(_, _)
AlphaRun(s, i) ==
    IF i <= Len(s) /\ IsAlpha(s[i]) THEN 1 + AlphaRun(s, i + 1) ELSE 0

RECURSIVE SpaceRun(_, _)
SpaceRun(s, i) ==
    IF i <= Len(s) /\ IsSpace(s[i]) THEN 1 + SpaceRun(s, i + 1) ELSE 0

\* \b before position i, where s[i] is a digit
BoundaryBefore(s, i) == i = 1 \/ ~IsWordChar(s[i - 1])

\* \b after position e, where s[e] is a digit
BoundaryAfter(s, e) == e = Len(s) \/ ~IsWordChar(s[e + 1])

\* \d{2,4})\b from position j: the end of the year, 0 when it does not match.
\* The run of digits is taken whole: cut short, a digit follows and \b fails.
YearEndAt(s, j) ==
    LET c == DigitRun(s, j)
    IN  IF c >= 2 /\ c <= 4 /\ BoundaryAfter(s, j + c - 1) THEN j + c - 1 ELSE 0

\* \b(\d{1,2} from position i: the number of digits of the day, 0 when it
\* does not match.  A separator, a space or a letter must follow, so the
\* run of digits is taken whole.
DayLenAt(s, i) ==
    LET a == DigitRun(s, i)
    IN  IF a >= 1 /\ a <= 2 /\ BoundaryBefore(s, i) THEN a ELSE 0

\* DATE_RXES[0] = \b(\d{1,2}[-/\.]\d{1,2}[-/\.]\d{2,4})\b
DateEnd0(s, i) ==
    LET a == DayLenAt(s, i)
        b == DigitRun(s, i + a + 1)
    IN  IF a > 0 /\ SepAt(s, i + a) /\ b >= 1 /\ b <= 2 /\ SepAt(s, i + a + 1 + b)
        THEN YearEndAt(s, i + a + b + 2)
        ELSE 0

\* DATE_RXES[1] = \b(\d{1,2}\s+[A-Za-z]{3,9}\s+\d{2,4})\b
DateEnd1(s, i) ==
    LET a  == DayLenAt(s, i)
        w1 == SpaceRun(s, i + a)
        m  == AlphaRun(s, i + a + w1)
        w2 == SpaceRun(s, i + a + w1 + m)
    IN  IF a > 0 /\ w1 >= 1 /\ m >= 3 /\ m <= 9 /\ w2 >= 1
        THEN YearEndAt(s, i + a + w1 + m + w2)
        ELSE 0

\* DATE_RXES[2] = \b(\d{1,2}[-/\.][A-Za-z]{3}[-/\.]\d{2,4})\b
DateEnd2(s, i) ==
    LET a == DayLenAt(s, i)
        m == AlphaRun(s, i + a + 1)
    IN  IF a > 0 /\ SepAt(s, i + a) /\ m = 3 /\ SepAt(s, i + a + 4)
        THEN YearEndAt(s, i + a + 5)
        ELSE 0

\* the end of the match of DATE_RXES[rx] that starts at i, 0 when none
DateEndAt(rx, s, i) ==
    IF rx = 0 THEN DateEnd0(s, i)
    ELSE IF rx = 1 THEN DateEnd1(s, i)
    ELSE DateEnd2(s, i)

\* rx.search(s).group(1): the leftmost match, <<>> when there is none
RxSearch(rx, s) ==
    LET GroupAt(i) == SubSeq(s, i, DateEndAt(rx, s, i))
        Leftmost(starts) == IF starts = {} THEN <<>> ELSE GroupAt(Min(starts))
    IN  Leftmost({i \in 1..Len(s) : DateEndAt(rx, s, i) > 0})

\* for rx in DATE_RXES: the group of the first that matches, "" when none does
FirstMatch(m0, m1, m2) ==
    IF m0 # <<>> THEN m0 ELSE IF m1 # <<>> THEN m1 ELSE m2

find_date(s) ==
    FirstMatch(RxSearch(0, s), RxSearch(1, s), RxSearch(2, s))

-----------------------------------------------------------------------------
(* Debit/Credit cues *)

CREDIT_HINTS ==
    {<<"C", "R">>,
     <<"C", "R", "E", "D", "I", "T">>,
     <<"D", "E", "P", "O", "S", "I", "T">>,
     <<"U", "P", "I", "/", "C", "R">>,
     <<"R", "E", "F", "U", "N", "D">>,
     <<"R", "E", "V", "E", "R", "S", "A", "L">>}

DEBIT_HINTS ==
    {<<"D", "R">>,
     <<"D", "E", "B", "I", "T">>,
     <<"W", "I", "T", "H", "D", "R", "A", "W", "A", "L">>,
     <<"W", "/", "D">>,
     <<"A", "T", "M">>,
     <<"P", "O", "S">>,
     <<"I", "R", "C", "T", "C">>,
     <<"C", "H", "A", "R", "G", "E", "S">>}

ContainsAny(up, hints) == \E w \in hints : Contains(up, w)

\* up = s.upper(); any(w in up for w in words)
has_any(s, hints) == ContainsAny(Upper(s), hints)

-----------------------------------------------------------------------------
(* parse_line *)

\* the value a function returns for None where a ParsedRow is expected
None_ == [none |-> TRUE]

\* Decimal("1.00") of lines 112 and 114, in cents
Tolerance == 100

Abs(x) == IF x < 0 THEN -x ELSE x

\* WithinTolerance with a tolerance of 0.01
WithinTolerance_Cent(x) == Abs(x) <= 1

\* lines 112 and 114: abs(x) <= Decimal("1.00")
WithinTolerance(x) == Abs(x) <= Tolerance

\* line 119: line.rsplit(monies[-2], 1)[0][-3:], then the test for "-"
SignFallbackIsDebit(ln, amountText) ==
    "-" \in Range(LastN(RSplitHead(ln, amountText), 3))

\* lines 127-130: the keywords around the amount on a first row
FirstRowIsDebit(ln, amountText) ==
    LET before  == Upper(LastN(RSplitHead(ln, amountText), 12))
        after   == Upper(FirstN(SplitTail(ln, amountText), 12))
        context == before \o <<" ">> \o after
    IN  has_any(context, DEBIT_HINTS)

\* Direction with the balance delta consulted before the keywords
Direction_DeltaFirst(ln, amountText, amount, balance, prevBalance) ==
    IF prevBalance # <<>> /\ WithinTolerance(balance - prevBalance[1] - amount)
    THEN "credit"
    ELSE IF prevBalance # <<>> /\ WithinTolerance(balance - prevBalance[1] + amount)
    THEN "debit"
    ELSE IF has_any(ln, CREDIT_HINTS) THEN "credit"
    ELSE IF has_any(ln, DEBIT_HINTS) THEN "debit"
    ELSE IF prevBalance # <<>>
         THEN IF SignFallbackIsDebit(ln, amountText) THEN "debit" ELSE "credit"
         ELSE IF FirstRowIsDebit(ln, amountText) THEN "debit" ELSE "credit"

\* lines 103-133: "debit" or "credit", the field that receives amount
Direction(ln, amountText, amount, balance, prevBalance) ==
    IF has_any(ln, CREDIT_HINTS) THEN "credit"
    ELSE IF has_any(ln, DEBIT_HINTS) THEN "debit"
    ELSE IF prevBalance # <<>>
         THEN LET diff == balance - prevBalance[1]
              IN  IF WithinTolerance(diff - amount) THEN "credit"
                  ELSE IF WithinTolerance(diff + amount) THEN "debit"
                  ELSE IF SignFallbackIsDebit(ln, amountText) THEN "debit"
                  ELSE "credit"
         ELSE IF FirstRowIsDebit(ln, amountText) THEN "debit" ELSE "credit"

\* re.sub(r'(CR|DR)\s*$', '', tail, flags=re.IGNORECASE)
StripTag(tail) ==
    LET t    == StripRight(tail, {" "})
        last == Upper(LastN(t, 2))
    IN  IF last = <<"C", "R">> \/ last = <<"D", "R">>
        THEN SubSeq(t, 1, Len(t) - 2)
        ELSE tail

\* lines 136-140
Particulars(ln, balanceText, amountText) ==
    normspaces(StripTag(RSplitHead(RSplitHead(ln, balanceText), amountText)))

\* which money matches are the balance and the amount: monies[-1], monies[-2]
BalanceIndex(n) == n

\* AmountIndex taking the first money match of the line
AmountIndex_First(n) == 1

AmountIndex(n) == n - 1

\* lines 145-152: the row returned
ParsedRow(rawLine, ln, balanceText, amountText, amount, balance, dir) ==
    [Date        |-> find_date(ln),
     Particulars |-> Particulars(ln, balanceText, amountText),
     Debit       |-> IF dir = "debit" THEN amount ELSE 0,
     Credit      |-> IF dir = "credit" THEN amount ELSE 0,
     Balance     |-> balance,
     raw         |-> rawLine]

\* lines 99-133: debit and credit from the direction
DirectedRow(rawLine, ln, balanceText, amountText, amount, balance, prevBalance) ==
    ParsedRow(rawLine, ln, balanceText, amountText, amount, balance,
              Direction(ln, amountText, amount, balance, prevBalance))

\* lines 93-97: balance and amount.  clean_money cannot raise on a match of
\* MONEY_RX, which is digits, commas and one point.
ValuedRow(rawLine, ln, balanceText, amountText, prevBalance) ==
    DirectedRow(rawLine, ln, balanceText, amountText, clean_money(amountText),
                clean_money(balanceText), prevBalance)

\* lines 89-95: no row with fewer than 2 monies
RowOfMonies(rawLine, ln, monies, prevBalance) ==
    IF Len(monies) < 2 THEN None_
    ELSE ValuedRow(rawLine, ln, monies[BalanceIndex(Len(monies))],
                   monies[AmountIndex(Len(monies))], prevBalance)

\* lines 87-88: the monies of the normalized line
RowOfLine(rawLine, ln, prevBalance) == RowOfMonies(rawLine, ln, Monies(ln), prevBalance)

parse_line(rawLine, prevBalance) == RowOfLine(rawLine, normspaces(rawLine), prevBalance)

-----------------------------------------------------------------------------
(* parse_line as a function of its arguments *)

\* the most words of an input line
MaxWords == 3

\* The words input lines are made of: an amount, a comma-grouped balance
\* that ends in the text of the amount, the amount after a minus sign, a
\* zero, a lower-case word that holds a debit and a credit cue, a debit cue,
\* and a plain integer.
Vocabulary ==
    {<<"5", "0", ".", "0", "0">>,
     <<"1", ",", "0", "5", "0", ".", "0", "0">>,
     <<"-", "5", "0", ".", "0", "0">>,
     <<"0", ".", "0", "0">>,
     <<"a", "t", "m", "/", "c", "r">>,
     <<"A", "T", "M">>,
     <<"1", "2", "3">>}

LineInputs ==
    {Join(ws) : ws \in UNION {[1..n -> Vocabulary] : n \in 1..MaxWords}}

\* previous balances, in cents: None, the balance 1,050.00 less and plus
\* the amount 50.00, and half a unit more than that
PrevInputs == {<<>>, <<100000>>, <<110000>>, <<110050>>}

InitLine ==
    /\ pc = "call"
    /\ line \in LineInputs
    /\ prev \in PrevInputs
    /\ parsed = None_
    /\ consumed = <<>> /\ rows = <<>> /\ prev_balance = <<>>
    /\ pending_desc = <<>> /\ pending_date = <<>> /\ df = <<>>
    /\ results = <<>> /\ words = <<>> /\ idx = 0 /\ current_y = 0
    /\ current_line = <<>> /\ lines = <<>> /\ flushed = <<>>

ParseLineCall ==
    /\ pc = "call"
    /\ parsed' = parse_line(line, prev)
    /\ pc' = "returned"
    /\ UNCHANGED <<line, prev, rowVars, ocrVars>>

NextLine == ParseLineCall

SpecLine == InitLine /\ [][NextLine]_vars

-----------------------------------------------------------------------------
(* parse_lines_to_rows *)

\* the most lines of an input
MaxLines == 4

\* "01-01-23"
DateLine ==
    <<"0", "1", "-", "0", "1", "-", "2", "3">>

\* "02-JAN-23 NOTE"
DateNoteLine ==
    <<"0", "2", "-", "J", "A", "N", "-", "2", "3", " ", "N", "O",
      "T", "E">>

\* "PAID 50.00 150.00"
PlainTxnLine ==
    <<"P", "A", "I", "D", " ", "5", "0", ".", "0", "0", " ", "1",
      "5", "0", ".", "0", "0">>

\* "03-01-23 ATM 50.00 100.00"
DatedTxnLine ==
    <<"0", "3", "-", "0", "1", "-", "2", "3", " ", "A", "T", "M",
      " ", "5", "0", ".", "0", "0", " ", "1", "0", "0", ".", "0",
      "0">>

\* "REF 123"
FragmentLine ==
    <<"R", "E", "F", " ", "1", "2", "3">>

\* "Date Description Debit Credit Balance"
HeaderLine ==
    <<"D", "a", "t", "e", " ", "D", "e", "s", "c", "r", "i", "p",
      "t", "i", "o", "n", " ", "D", "e", "b", "i", "t", " ", "C",
      "r", "e", "d", "i", "t", " ", "B", "a", "l", "a", "n", "c",
      "e">>

\* "123"
NoiseLine ==
    <<"1", "2", "3">>

\* The lines inputs are made of: a date alone, a date with a note, a
\* transaction without and with a date of its own, a fragment of a
\* description, a header of column names, and a page number.
RowLines ==
    {DateLine, DateNoteLine, PlainTxnLine, DatedTxnLine, FragmentLine, HeaderLine,
     NoiseLine}

\* line 247: dt and not MONEY_RX.search(ln)
IsDateOnly(ln) == find_date(ln) # <<>> /\ ~MoneySearch(ln)

\* line 257: parse_line returned a row (whatever the previous balance)
IsTransaction(ln) == ~IsDateOnly(ln) /\ parse_line(ln, <<>>) # None_

\* line 250: normspaces(ln.replace(dt, "")).strip(" -" and the two dashes)
DateResidue(ln) ==
    Strip(normspaces(ReplaceAll(ln, find_date(ln))), {" ", "-", "EN DASH", "EM DASH"})

\* line 269: any(ch.isalpha() for ch in ln)
HasAlpha(ln) == \E i \in DOMAIN ln : IsAlpha(ln[i])

\* EmitDate with the pending date over the date of the line
EmitDate_PendingWins(parsedDate, pendingDate) ==
    IF pendingDate # <<>> THEN pendingDate ELSE parsedDate

\* lines 259-260: the date of the emitted row
EmitDate(parsedDate, pendingDate) ==
    IF parsedDate = <<>> /\ pendingDate # <<>> THEN pendingDate ELSE parsedDate

\* lines 262-263: the particulars of the emitted row
EmitParticulars(pendingDesc, own) ==
    IF pendingDesc # <<>>
    THEN normspaces(Join(pendingDesc) \o <<" ">> \o own)
    ELSE own

\* DescAfterEmit with the buffer kept
DescAfterEmit_Kept(pendingDesc) == pendingDesc

\* lines 262-264: pending_desc after a row is emitted
DescAfterEmit(pendingDesc) == <<>>

\* pd.NA in the Date column
PdNA == <<"<NA>">>

\* ffill that fills nothing
ffill_NoFill(col, last) == col

RECURSIVE ffill(_, _)
\* Series.ffill(): each NA takes the last value before it that is not NA
ffill(col, last) ==
    IF col = <<>> THEN <<>>
    ELSE LET v == IF Head(col) = PdNA THEN last ELSE Head(col)
         IN  <<v>> \o ffill(Tail(col), v)

\* line 285: df["Date"].replace("", pd.NA).ffill().fillna("")
FillDates(col) ==
    LET replaced == [i \in DOMAIN col |-> IF col[i] = <<>> THEN PdNA ELSE col[i]]
        filled   == ffill(replaced, PdNA)
    IN  [i \in DOMAIN col |-> IF filled[i] = PdNA THEN <<>> ELSE filled[i]]

\* lines 272-286.  float() of a Decimal of two fractional digits is the
\* double nearest to it, written here as its number of cents; it is 0.0
\* exactly for 0 cents.
ToFrame(rs) ==
    LET dates == FillDates([i \in DOMAIN rs |-> rs[i].Date])
    IN  [i \in DOMAIN rs |-> [rs[i] EXCEPT !.Date = dates[i]]]

\* the values prev_balance takes: None, and the balance of PlainTxnLine and
\* of DatedTxnLine
RowPrevBalances == {<<>>, <<15000>>, <<10000>>}

\* What the loop body computes from a line of RowLines, each computed once
\* for each line: line 246 (dt) ...
LineDate == [ln \in RowLines |-> find_date(ln)]

\* ... line 247 ...
LineIsDateOnly == [ln \in RowLines |-> IsDateOnly(ln)]

\* ... line 250, of a line that is only a date ...
LineResidue == [ln \in RowLines |-> IF IsDateOnly(ln) THEN DateResidue(ln) ELSE <<>>]

\* ... line 256, by previous balance ...
LineParsed == [ln \in RowLines |-> [pb \in RowPrevBalances |-> parse_line(ln, pb)]]

\* ... and line 269
LineHasAlpha == [ln \in RowLines |-> HasAlpha(ln)]

Init ==
    /\ pc = "loop"
    /\ consumed = <<>>
    /\ rows = <<>>
    /\ prev_balance = <<>>
    /\ pending_desc = <<>>
    /\ pending_date = <<>>
    /\ df = <<>>
    /\ line = <<>> /\ prev = <<>> /\ parsed = None_
    /\ results = <<>> /\ words = <<>> /\ idx = 0 /\ current_y = 0
    /\ current_line = <<>> /\ lines = <<>> /\ flushed = <<>>

\* lines 246-253: the line is only a date
DateOnlyLine(ln) ==
    /\ pc = "loop"
    /\ Len(consumed) < MaxLines
    /\ LineIsDateOnly[ln]
    /\ consumed' = Append(consumed, ln)
    /\ pending_date' = LineDate[ln]
    /\ LET rest == LineResidue[ln]
       IN  pending_desc' = IF rest # <<>> THEN Append(pending_desc, rest) ELSE pending_desc
    /\ UNCHANGED <<pc, rows, prev_balance, df, lineVars, ocrVars>>

\* lines 256-266: the line parses as a transaction
TransactionLine(ln) ==
    /\ pc = "loop"
    /\ Len(consumed) < MaxLines
    /\ ~LineIsDateOnly[ln]
    /\ LET EmitRow(p) ==
               /\ p # None_
               /\ rows' = Append(rows,
                                 [p EXCEPT !.Date = EmitDate(p.Date, pending_date),
                                           !.Particulars =
                                               EmitParticulars(pending_desc, p.Particulars)])
               /\ prev_balance' = <<p.Balance>>
       IN  EmitRow(LineParsed[ln][prev_balance])
    /\ consumed' = Append(consumed, ln)
    /\ pending_desc' = DescAfterEmit(pending_desc)
    /\ UNCHANGED <<pc, pending_date, df, lineVars, ocrVars>>

\* lines 267-270: any other line
OtherLine(ln) ==
    /\ pc = "loop"
    /\ Len(consumed) < MaxLines
    /\ ~LineIsDateOnly[ln]
    /\ LineParsed[ln][prev_balance] = None_
    /\ consumed' = Append(consumed, ln)
    /\ pending_desc' = IF LineHasAlpha[ln] THEN Append(pending_desc, ln) ELSE pending_desc
    /\ UNCHANGED <<pc, rows, prev_balance, pending_date, df, lineVars, ocrVars>>

\* lines 272-286: the lines are exhausted
Finish ==
    /\ pc = "loop"
    /\ df' = ToFrame(rows)
    /\ pc' = "done"
    /\ UNCHANGED <<consumed, rows, prev_balance, pending_desc, pending_date,
                   lineVars, ocrVars>>

Next ==
    \/ \E ln \in RowLines : DateOnlyLine(ln)
    \/ \E ln \in RowLines : TransactionLine(ln)
    \/ \E ln \in RowLines : OtherLine(ln)
    \/ Finish

Spec == Init /\ [][Next]_vars

-----------------------------------------------------------------------------
(* easyocr_lines: the words of a page clustered into lines *)

\* the most words of a page
MaxTokens == 4

\* y_threshold = 10.0, in pixels
y_threshold == 10

\* The words (y_center, x_left, text) pages are made of: three of one line
\* whose order down the page is not their order across it, one a whole
\* threshold and one a pixel more than a threshold below the first, and one
\* far below.
TokenInputs ==
    {<<100, 0, <<"a">>>>, <<102, 10, <<"b">>>>, <<101, 20, <<"c">>>>,
     <<110, 30, <<"g">>>>, <<111, 5, <<"e">>>>, <<140, 0, <<"d">>>>}

\* line 197: the key (t[0], t[1]) of words.sort
KeyBefore(a, b) == a[1] < b[1] \/ (a[1] = b[1] /\ a[2] < b[2])

\* line 211: the key t[1] of current_line.sort
LeftBefore(a, b) == a[2] < b[2]

\* x put into s after the first n elements
InsertAfter(s, n, x) == SubSeq(s, 1, n) \o <<x>> \o SubSeq(s, n + 1, Len(s))

\* A stable sort puts a word after every word that does not come after it:
\* into s, sorted by (y_center, x_left) ...
InsertByKey(s, x) ==
    InsertAfter(s, Cardinality({i \in 1..Len(s) : ~KeyBefore(x, s[i])}), x)

\* ... and into s, sorted by x_left
InsertByLeft(s, x) ==
    InsertAfter(s, Cardinality({i \in 1..Len(s) : ~LeftBefore(x, s[i])}), x)

RECURSIVE SortWords(_)
\* words.sort(key=lambda t: (t[0], t[1])), a stable sort
SortWords(s) ==
    IF s = <<>> THEN <<>>
    ELSE InsertByKey(SortWords(SubSeq(s, 1, Len(s) - 1)), s[Len(s)])

RECURSIVE SortLine(_)
\* current_line.sort(key=lambda t: t[1]), a stable sort
SortLine(s) ==
    IF s = <<>> THEN <<>>
    ELSE InsertByLeft(SortLine(SubSeq(s, 1, Len(s) - 1)), s[Len(s)])

\* lines 211-212 and 218-219: normspaces(" ".join(w[2] for w in current_line))
LineText(sortedLine) ==
    normspaces(Join([i \in DOMAIN sortedLine |-> sortedLine[i][3]]))

\* line 207: the word belongs to the current line
SameLine(y, currentY) == Abs(y - currentY) <= y_threshold

\* AnchorAfterAppend with the anchor moved to the word that joined
AnchorAfterAppend_Moves(currentY, y) == y

\* lines 207-208: current_y after a word joined the current line
AnchorAfterAppend(currentY, y) == currentY

InitOcr ==
    /\ pc = "sort"
    /\ results \in UNION {[1..n -> TokenInputs] : n \in 0..MaxTokens}
    /\ words = <<>> /\ idx = 0 /\ current_y = 0
    /\ current_line = <<>> /\ lines = <<>> /\ flushed = <<>>
    /\ line = <<>> /\ prev = <<>> /\ parsed = None_
    /\ consumed = <<>> /\ rows = <<>> /\ prev_balance = <<>>
    /\ pending_desc = <<>> /\ pending_date = <<>> /\ df = <<>>

\* lines 188-204: the words are sorted; no word, no line
SortStep ==
    /\ pc = "sort"
    /\ words' = SortWords(results)
    /\ IF results = <<>>
       THEN /\ pc' = "done"
            /\ UNCHANGED <<idx, current_y>>
       ELSE /\ pc' = "cluster"
            /\ idx' = 1
            /\ current_y' = SortWords(results)[1][1]
    /\ UNCHANGED <<results, current_line, lines, flushed, lineVars, rowVars>>

\* lines 206-208: the next word joins the current line
AppendWord ==
    /\ pc = "cluster"
    /\ idx <= Len(words)
    /\ SameLine(words[idx][1], current_y)
    /\ current_line' = Append(current_line, words[idx])
    /\ current_y' = AnchorAfterAppend(current_y, words[idx][1])
    /\ idx' = idx + 1
    /\ UNCHANGED <<pc, results, words, lines, flushed, lineVars, rowVars>>

\* lines 209-215: the current line is flushed and the next word starts a line
StartLine ==
    /\ pc = "cluster"
    /\ idx <= Len(words)
    /\ ~SameLine(words[idx][1], current_y)
    /\ lines' = Append(lines, LineText(SortLine(current_line)))
    /\ flushed' = Append(flushed, SortLine(current_line))
    /\ current_line' = <<words[idx]>>
    /\ current_y' = words[idx][1]
    /\ idx' = idx + 1
    /\ UNCHANGED <<pc, results, words, lineVars, rowVars>>

\* lines 217-220: the last line is flushed and lines is returned
LastFlush ==
    /\ pc = "cluster"
    /\ idx > Len(words)
    /\ IF current_line # <<>>
       THEN /\ lines' = Append(lines, LineText(SortLine(current_line)))
            /\ flushed' = Append(flushed, SortLine(current_line))
       ELSE UNCHANGED <<lines, flushed>>
    /\ pc' = "done"
    /\ UNCHANGED <<results, words, idx, current_y, current_line, lineVars, rowVars>>

NextOcr == SortStep \/ AppendWord \/ StartLine \/ LastFlush

SpecOcr == InitOcr /\ [][NextOcr]_vars

-----------------------------------------------------------------------------
(* Properties of parse_line, under SpecLine *)

\* parse_line returned a row
Returned == pc = "returned" /\ parsed # None_

\* the upper-cased text holds one of the cues as a substring
HasCue(upperText, cues) == \E w \in cues : Contains(upperText, w)

\* the value of the second-to-last of the money matches
AmountOf(monies) == clean_money(monies[Len(monies) - 1])

\* the value of the last of the money matches
BalanceOf(monies) == clean_money(monies[Len(monies)])

IsCredit(amount) == parsed.Credit = amount /\ parsed.Debit = 0

IsDebit(amount) == parsed.Debit = amount /\ parsed.Credit = 0

\* the row has no cue and there is a previous balance
NoCueWithPrevious(upperText) ==
    /\ Returned
    /\ ~HasCue(upperText, CREDIT_HINTS) /\ ~HasCue(upperText, DEBIT_HINTS)
    /\ prev # <<>>

\* C1: every row parse_line returns has exactly one of Debit and Credit
\* non-zero, rows whose Amount parses to 0.00 included.
C1_ExactlyOneNonZero ==
    Returned => ((parsed.Debit # 0) # (parsed.Credit # 0))

KeywordRule(upperText, amount) ==
    /\ HasCue(upperText, CREDIT_HINTS) => IsCredit(amount)
    /\ (~HasCue(upperText, CREDIT_HINTS) /\ HasCue(upperText, DEBIT_HINTS))
           => IsDebit(amount)

\* C2: a credit cue anywhere in the upper-cased line makes the row a credit
\* of Amount, whatever the debit cues and the previous balance; without a
\* credit cue, a debit cue makes it a debit of Amount, whatever the previous
\* balance.
C2_KeywordsDecideFirst ==
    Returned => KeywordRule(Upper(normspaces(line)), AmountOf(Monies(normspaces(line))))

BothCuesAgainstDelta(upperText, amount, delta) ==
    /\ HasCue(upperText, CREDIT_HINTS) /\ HasCue(upperText, DEBIT_HINTS)
    /\ amount > 0 /\ delta = -amount
    /\ IsCredit(amount)

\* a line with a credit and a debit cue whose balance fell by Amount since
\* the previous balance, returned as a credit
C2_Witness ==
    /\ Returned
    /\ prev # <<>>
    /\ BothCuesAgainstDelta(Upper(normspaces(line)), AmountOf(Monies(normspaces(line))),
                            parsed.Balance - prev[1])

\* A credit of Amount when the delta is within tol cents of +Amount, else a
\* debit of Amount when it is within tol cents of -Amount, else the
\* direction the sign before the amount gives.
DeltaRule(tol, delta, amount, signIsDebit) ==
    IF Abs(delta - amount) <= tol THEN IsCredit(amount)
    ELSE IF Abs(delta + amount) <= tol THEN IsDebit(amount)
    ELSE IF signIsDebit THEN IsDebit(amount)
    ELSE IsCredit(amount)

DeltaRuleOfLine(tol, ln, monies) ==
    DeltaRule(tol, parsed.Balance - prev[1], AmountOf(monies),
              SignFallbackIsDebit(ln, monies[Len(monies) - 1]))

\* C3 as written: without a cue and with a previous balance, balance-delta
\* inference with a tolerance of 0.01.
C3_DeltaInferenceWithin001 ==
    NoCueWithPrevious(Upper(normspaces(line)))
        => DeltaRuleOfLine(1, normspaces(line), Monies(normspaces(line)))

\* C3 amended: without a cue and with a previous balance, balance-delta
\* inference with a tolerance of 1.00.
C3_DeltaInferenceWithin100 ==
    NoCueWithPrevious(Upper(normspaces(line)))
        => DeltaRuleOfLine(100, normspaces(line), Monies(normspaces(line)))

DebitInsideWiderTolerance(delta, amount) ==
    /\ amount > 0
    /\ Abs(delta - amount) > 100
    /\ Abs(delta + amount) > 1 /\ Abs(delta + amount) <= 100
    /\ IsDebit(amount)

\* a row without a cue made a debit by a delta more than 0.01 and at most
\* 1.00 away from -Amount
C3_Witness ==
    /\ NoCueWithPrevious(Upper(normspaces(line)))
    /\ DebitInsideWiderTolerance(parsed.Balance - prev[1],
                                 AmountOf(Monies(normspaces(line))))

RightmostTwo(monies) ==
    IF Len(monies) < 2 THEN parsed = None_
    ELSE /\ parsed # None_
         /\ parsed.Balance = BalanceOf(monies)
         /\ IsCredit(AmountOf(monies)) \/ IsDebit(AmountOf(monies))

\* C4: with n >= 2 money matches the row's Balance is the value of the n-th
\* match and its movement the value of the (n-1)-th, whatever comes before
\* them on the line; with fewer than 2 matches there is no row.
C4_RightmostTwoMatches ==
    pc = "returned" => RightmostTwo(Monies(normspaces(line)))

ThreeValues(monies) ==
    /\ Len(monies) = 3
    /\ Cardinality({clean_money(monies[k]) : k \in 1..3}) = 3
    /\ parsed.Balance = clean_money(monies[3])
    /\ parsed.Debit + parsed.Credit = clean_money(monies[2])

\* a row of a line with three money matches of three values
C4_Witness == Returned /\ ThreeValues(Monies(normspaces(line)))

\* a debit exactly when a minus sign is among the 3 characters before the
\* second-to-last money match
SignBeforeMatch(ln, start, delta, amount) ==
    (Abs(delta - amount) > Tolerance /\ Abs(delta + amount) > Tolerance) =>
        IF "-" \in Range(SubSeq(ln, Max({1, start - 3}), start - 1))
        THEN IsDebit(amount)
        ELSE IsCredit(amount)

SignBeforeMatchOfLine(ln, matches) ==
    SignBeforeMatch(ln, matches[Len(matches) - 1].start, parsed.Balance - prev[1],
                    clean_money(SubSeq(ln, matches[Len(matches) - 1].start,
                                       matches[Len(matches) - 1].end)))

\* C10: without a cue, with a previous balance and a delta that matches
\* neither +Amount nor -Amount, the row is a debit exactly when a minus sign
\* is among the 3 characters before the second-to-last money match, also
\* when the text of the amount occurs again in the balance.
C10_SignBeforeAmountMatch ==
    NoCueWithPrevious(Upper(normspaces(line)))
        => SignBeforeMatchOfLine(normspaces(line), MoneyMatches(normspaces(line)))

-----------------------------------------------------------------------------
(* Properties of parse_lines_to_rows, under Spec *)

\* the lines of RowLines by what the loop does with them
DateOnlyLines == {ln \in RowLines : IsDateOnly(ln)}

TransactionLines == {ln \in RowLines : IsTransaction(ln)}

\* the date of each line, and the particulars of each transaction line
DateOf == [ln \in RowLines |-> find_date(normspaces(ln))]

OwnParticulars == [ln \in TransactionLines |-> parse_line(ln, <<>>).Particulars]

\* the description a line that is no transaction leaves in the buffer,
\* <<>> when it leaves none
FragmentOf ==
    [ln \in RowLines |->
        IF ln \in DateOnlyLines THEN DateResidue(ln)
        ELSE IF ln \notin TransactionLines /\ HasAlpha(ln) THEN ln
        ELSE <<>>]

NotEmpty(x) == x # <<>>

\* the positions of the transaction lines among the first n lines taken
TxnPositions(n) == {j \in 1..n : consumed[j] \in TransactionLines}

\* the row the transaction line at position j gave
RowAt(j) == rows[Cardinality(TxnPositions(j))]

\* the date of the last date-only line before position j, <<>> when none
DateHeaderBefore(j) ==
    LET LastOf(ds) == IF ds = {} THEN <<>> ELSE DateOf[consumed[Max(ds)]]
    IN  LastOf({i \in 1..(j - 1) : consumed[i] \in DateOnlyLines})

\* the fragments the lines at positions a..b left, in order
FragmentsOf(a, b) ==
    SelectSeq([i \in 1..(b - a + 1) |-> FragmentOf[consumed[a + i - 1]]], NotEmpty)

\* the position of the last transaction line before position j, 0 when none
TxnBefore(j) == Max({0} \cup TxnPositions(j - 1))

\* C5: a date-only line emits no row and sets pending_date; every later
\* transaction line without a date of its own gives a row of that date until
\* another date-only line replaces it; a transaction line with a date of its
\* own keeps it; emitting a row leaves pending_date as it is.
C5_PendingDateCarried ==
    /\ Len(rows) = Cardinality(TxnPositions(Len(consumed)))
    /\ pending_date = DateHeaderBefore(Len(consumed) + 1)
    /\ \A j \in TxnPositions(Len(consumed)) :
          RowAt(j).Date = IF DateOf[consumed[j]] # <<>> THEN DateOf[consumed[j]]
                          ELSE DateHeaderBefore(j)

\* a date-only line followed by two transaction lines without a date, both
\* rows of its date, and pending_date still that date
C5_Witness ==
    /\ Len(consumed) = 3 /\ Len(rows) = 2
    /\ consumed[1] \in DateOnlyLines
    /\ DateOf[consumed[2]] = <<>> /\ DateOf[consumed[3]] = <<>>
    /\ rows[1].Date = DateOf[consumed[1]] /\ rows[2].Date = DateOf[consumed[1]]
    /\ pending_date = DateOf[consumed[1]]

\* C6: the Particulars of a row is the normalized join of the fragments
\* buffered since the row before it (or the start), in order, and of the
\* line's own particulars; pending_desc holds the fragments since the last
\* row, none right after a row.
C6_ParticularsJoinBuffered ==
    /\ Len(rows) = Cardinality(TxnPositions(Len(consumed)))
    /\ pending_desc = FragmentsOf(TxnBefore(Len(consumed) + 1) + 1, Len(consumed))
    /\ \A j \in TxnPositions(Len(consumed)) :
          RowAt(j).Particulars =
              normspaces(Join(Append(FragmentsOf(TxnBefore(j) + 1, j - 1),
                                     OwnParticulars[consumed[j]])))

\* two fragments, then a transaction line whose row holds both, then a
\* transaction line whose row holds neither
C6_Witness ==
    /\ Len(consumed) = 4 /\ Len(rows) = 2
    /\ Len(FragmentsOf(1, 2)) = 2
    /\ rows[1].Particulars = normspaces(Join(Append(FragmentsOf(1, 2),
                                                    OwnParticulars[consumed[3]])))
    /\ rows[2].Particulars = OwnParticulars[consumed[4]]
    /\ pending_desc = <<>>

\* the date of the nearest row before k that had a date, <<>> when none
NearestDateBefore(k) ==
    LET LastOf(ds) == IF ds = {} THEN <<>> ELSE rows[Max(ds)].Date
    IN  LastOf({i \in 1..(k - 1) : rows[i].Date # <<>>})

\* C7: in the output a row whose date was empty has the date of the nearest
\* row before it that had one, rows with a date are unchanged, rows before
\* the first dated row stay empty, and no empty date follows a date.
C7_ForwardFill ==
    /\ pc = "done" =>
          /\ Len(df) = Len(rows)
          /\ \A k \in DOMAIN rows :
                df[k] = [rows[k] EXCEPT !.Date = IF rows[k].Date # <<>> THEN rows[k].Date
                                                 ELSE NearestDateBefore(k)]
          /\ \A i, k \in DOMAIN df : (i < k /\ df[i].Date # <<>>) => df[k].Date # <<>>
    /\ FillDates(<<DateOf[DateLine], <<>>, <<>>, DateOf[DatedTxnLine], <<>>>>)
          = <<DateOf[DateLine], DateOf[DateLine], DateOf[DateLine],
              DateOf[DatedTxnLine], DateOf[DatedTxnLine]>>

\* three rows emitted with the dates "", a date, "": the first stays empty
\* and the third takes the date of the second
C7_Witness ==
    /\ pc = "done" /\ Len(rows) = 3
    /\ rows[1].Date = <<>> /\ rows[2].Date # <<>> /\ rows[3].Date = <<>>
    /\ df[1].Date = <<>> /\ df[3].Date = rows[2].Date

\* C8: taking a header line of column names emits no row and leaves
\* previous_balance, pending_date and pending_description unchanged.
C8_HeaderDiscarded ==
    [][consumed' = Append(consumed, HeaderLine)
          => UNCHANGED <<rows, prev_balance, pending_date, pending_desc>>]_vars

-----------------------------------------------------------------------------
(* Properties of easyocr_lines, under SpecOcr *)

\* the least y_center of a flushed line: its anchor, the words being taken
\* in the order of y_center
AnchorOf(wordLine) == Min({wordLine[i][1] : i \in DOMAIN wordLine})

\* how often a word occurs in a sequence of words
CountIn(word, ws) == Cardinality({i \in DOMAIN ws : ws[i] = word})

RECURSIVE Concat(_)
Concat(wordLines) ==
    IF wordLines = <<>> THEN <<>> ELSE Head(wordLines) \o Concat(Tail(wordLines))

\* the four words of the example: y_center 100, 102, 101 and 140
ExamplePage ==
    <<<<100, 0, <<"a">>>>, <<102, 10, <<"b">>>>, <<101, 20, <<"c">>>>, <<140, 0, <<"d">>>>>>

\* C9: the words are taken in (y_center, x_left) order; a line is started
\* exactly when a word is more than the threshold from the anchor of the
\* current line, which is the y_center of its first word and does not move;
\* every word is in exactly one line; the lines come in increasing anchor
\* order, each joined in increasing x_left order.
C9_Clustering ==
    /\ pc \in {"cluster", "done"} =>
          /\ Len(words) = Len(results)
          /\ \A w \in TokenInputs : CountIn(w, words) = CountIn(w, results)
          /\ \A i \in 1..(Len(words) - 1) : ~KeyBefore(words[i + 1], words[i])
    /\ pc = "done" =>
          /\ \A w \in TokenInputs : CountIn(w, Concat(flushed)) = CountIn(w, results)
          /\ \A k \in DOMAIN flushed :
                /\ flushed[k] # <<>>
                /\ \A i \in DOMAIN flushed[k] :
                      flushed[k][i][1] - AnchorOf(flushed[k]) <= 10
                /\ \A i \in 1..(Len(flushed[k]) - 1) :
                      flushed[k][i][2] <= flushed[k][i + 1][2]
                /\ k > 1 => AnchorOf(flushed[k]) - AnchorOf(flushed[k - 1]) > 10
          /\ Len(lines) = Len(flushed)
          /\ \A k \in DOMAIN lines :
                lines[k] = normspaces(Join([i \in DOMAIN flushed[k] |-> flushed[k][i][3]]))
          /\ results = ExamplePage => Len(lines) = 2

\* the example page clustered: "a b c" and "d"
C9_Witness ==
    /\ pc = "done"
    /\ results = ExamplePage
    /\ lines = <<<<"a", " ", "b", " ", "c">>, <<"d">>>>

====
